---- MODULE Spec2Model ----
(***************************************************************************)
(* A model of tsutterley/nsidc-subsetter: the polygon class of             *)
(* subsetting_tools/polygon.py (file lookup, readers, bounds, convex_hull, *)
(* xy, cluster) and nsidc_subset_altimetry.py (the spatial flags, the      *)
(* granule search, the download loop, and main's loop over the products),  *)
(* and build_version_query as nsidc_subset_altimetry.py and                *)
(* subsetting_tools/utilities.py each define it.                           *)
(*                                                                         *)
(* Strings the code takes apart (the --polygon argument, file names) are   *)
(* sequences of one-character strings.  Coordinates are integer pairs      *)
(* <<x, y>>; a ring is a sequence of points.  Files are read in EPSG:4326  *)
(* by a polygon object of the default epsg, for which the pyproj           *)
(* transformer is the identity on (x, y).                                  *)
(***************************************************************************)
EXTENDS Integers, Sequences, FiniteSets, TLC

\* ------------------------------------------------------------------ bounds
MaxFeatures == 3
MaxClusters == 4
MaxEntries == 2
MaxPages == 2
MaxProducts == 2
MaxVersionLen == 4
MaxPad == 4

\* --------------------------------------------------------------- constants
None == "None"
\* an optional argument: Python's None, or a value
NoneV == [some |-> FALSE, val |-> <<>>]
Some(x) == [some |-> TRUE, val |-> x]
\* Python truthiness of an optional list: None and [] are both false
Truthy(o) == o.some /\ o.val # <<>>
epsg == 4326
page_size == 100
\* np.log(0.0) is -inf (a RuntimeWarning, not an exception): below every score
NegInf == -1000000

\* ----------------------------------------------------------------- helpers
Last(s) == s[Len(s)]

Reverse(s) == [i \in 1..Len(s) |-> s[Len(s) + 1 - i]]

RECURSIVE SumSeq(_)
SumSeq(s) == IF s = <<>> THEN 0 ELSE s[1] + SumSeq(Tail(s))

RECURSIVE Flatten(_)
Flatten(ss) == IF ss = <<>> THEN <<>> ELSE ss[1] \o Flatten(Tail(ss))

SetToSeqOne(S) == IF S = {} THEN <<>> ELSE <<CHOOSE x \in S : TRUE>>

SetMin(S) == CHOOSE x \in S : \A y \in S : x <= y
SetMax(S) == CHOOSE x \in S : \A y \in S : x >= y

\* str.rfind(ch): the last index of ch in s, 0 when absent (Python: -1)
RFind(s, ch) ==
    LET I == {i \in 1..Len(s) : s[i] = ch}
    IN  IF I = {} THEN 0 ELSE SetMax(I)

\* str.split(sep) for a one-character separator
RECURSIVE Split(_, _)
Split(s, sep) ==
    LET I == {i \in 1..Len(s) : s[i] = sep}
    IN  IF I = {} THEN <<s>>
        ELSE LET i == SetMin(I)
             IN  <<SubSeq(s, 1, i - 1)>> \o Split(SubSeq(s, i + 1, Len(s)), sep)

\* ------------------------------------------------- the --polygon argument
\* os.path.splitext (posixpath): the extension starts at the last dot of the
\* last path component, leading dots of that component not counted
SplitExt(p) ==
    LET sepIndex == RFind(p, "/")
        dotIndex == RFind(p, ".")
    IN  IF dotIndex > sepIndex
           /\ \E j \in (sepIndex + 1)..(dotIndex - 1) : p[j] # "."
        THEN <<SubSeq(p, 1, dotIndex - 1), SubSeq(p, dotIndex, Len(p))>>
        ELSE <<p, <<>>>>

\* re.match(r'(.*?)(\[(.*?)\])?$', POLYGON): group 1 is the shortest prefix
\* after which the rest is empty or is "[" ... "]" up to the end of the string;
\* an unmatched group 2 (Python: None) is the empty sequence here, which a
\* matched group 2 never is
BracketAt(s, n) ==
    /\ n + 2 <= Len(s)
    /\ s[n + 1] = "["
    /\ s[Len(s)] = "]"

MatchPolygon(s) ==
    LET n == SetMin({m \in 0..Len(s) : m = Len(s) \/ BracketAt(s, m)})
    IN  IF n = Len(s)
        THEN [group1 |-> s, group2 |-> <<>>, group3 |-> <<>>]
        ELSE [group1 |-> SubSeq(s, 1, n),
              group2 |-> SubSeq(s, n + 1, Len(s)),
              group3 |-> SubSeq(s, n + 2, Len(s) - 1)]

ext_shp == <<".", "s", "h", "p">>
ext_zip == <<".", "z", "i", "p">>
ext_kml == <<".", "k", "m", "l">>
ext_kmz == <<".", "k", "m", "z">>
ext_json == <<".", "j", "s", "o", "n">>
ext_geojson == <<".", "g", "e", "o", "j", "s", "o", "n">>
ext_txt == <<".", "t", "x", "t">>

\* DispatchPolygon with the final else dropped: an unlisted extension is
\* read as GeoJSON
DispatchPolygonNoElse(POLYGON) ==
    LET fileExtension == SplitExt(POLYGON)[2]
        match_object == MatchPolygon(POLYGON)
        f == match_object.group1
        v == IF match_object.group2 # <<>>
             THEN Some(Split(match_object.group3, ",")) ELSE NoneV
    IN  IF fileExtension \in {ext_shp, ext_zip}
        THEN [reader |-> "from_shapefile", f |-> f, variables |-> v,
              flag |-> (fileExtension = ext_zip), raised |-> None]
        ELSE IF fileExtension \in {ext_kml, ext_kmz}
        THEN [reader |-> "from_kml", f |-> f, variables |-> v,
              flag |-> (fileExtension = ext_kmz), raised |-> None]
        ELSE [reader |-> "from_geojson", f |-> f, variables |-> v,
              flag |-> FALSE, raised |-> None]

\* the reader call the CLI makes for a --polygon argument, or the IOError
DispatchPolygon(POLYGON) ==
    LET fileExtension == SplitExt(POLYGON)[2]
        match_object == MatchPolygon(POLYGON)
        f == match_object.group1
        v == IF match_object.group2 # <<>>
             THEN Some(Split(match_object.group3, ",")) ELSE NoneV
    IN  IF fileExtension \in {ext_shp, ext_zip}
        THEN [reader |-> "from_shapefile", f |-> f, variables |-> v,
              flag |-> (fileExtension = ext_zip), raised |-> None]
        ELSE IF fileExtension \in {ext_kml, ext_kmz}
        THEN [reader |-> "from_kml", f |-> f, variables |-> v,
              flag |-> (fileExtension = ext_kmz), raised |-> None]
        ELSE IF fileExtension \in {ext_json, ext_geojson}
        THEN [reader |-> "from_geojson", f |-> f, variables |-> v,
              flag |-> FALSE, raised |-> None]
        ELSE [reader |-> None, f |-> f, variables |-> v,
              flag |-> FALSE, raised |-> "IOError"]

\* ------------------------------------------------------ the polygon file
\* feature identifiers, by position in the file
FeatureId(i) == << <<"A", "B", "C", "D", "E", "F">>[i] >>

\* the geometries a file's features are drawn from
Geometry(name) ==
    CASE name = "tri"   -> [type |-> "Polygon", coordinates |->
                              << <<<<0, 0>>, <<2, 0>>, <<0, 2>>, <<0, 0>>>> >>]
      [] name = "sq"    -> [type |-> "Polygon", coordinates |->
                              << <<<<3, 1>>, <<3, 2>>, <<4, 2>>, <<4, 1>>, <<3, 1>>>> >>]
      [] name = "holed" -> [type |-> "Polygon", coordinates |->
                              << <<<<0, 0>>, <<4, 0>>, <<4, 3>>, <<0, 3>>, <<0, 0>>>>,
                                 <<<<1, 1>>, <<1, 2>>, <<2, 2>>, <<2, 1>>, <<1, 1>>>> >>]
      [] name = "line"  -> [type |-> "LineString", coordinates |->
                              <<<<1, 0>>, <<3, 1>>, <<1, 3>>>>]
      [] name = "pt"    -> [type |-> "Point", coordinates |-> <<5, 5>>]
      [] name = "spike" -> [type |-> "Polygon", coordinates |->
                              << <<<<0, 0>>, <<2, 0>>, <<2, 2>>, <<3, 3>>, <<2, 2>>,
                                   <<0, 2>>, <<0, 0>>>> >>]
      [] name = "flat"  -> [type |-> "Polygon", coordinates |->
                              << <<<<0, 0>>, <<1, 1>>, <<2, 2>>, <<0, 0>>>> >>]
      [] name = "unit0" -> [type |-> "Polygon", coordinates |->
                              << <<<<0, 0>>, <<1, 0>>, <<1, 1>>, <<0, 1>>, <<0, 0>>>> >>]
      [] name = "unit10" -> [type |-> "Polygon", coordinates |->
                              << <<<<10, 10>>, <<10, 11>>, <<11, 11>>, <<11, 10>>,
                                   <<10, 10>>>> >>]

GeometryNames == {"tri", "sq", "holed", "line", "pt"}

RECURSIVE SeqsUpTo(_, _)
SeqsUpTo(S, n) ==
    IF n = 0 THEN {<<>>}
    ELSE LET R == SeqsUpTo(S, n - 1)
         IN  R \cup {Append(r, x) : r \in {q \in R : Len(q) = n - 1}, x \in S}

Files == SeqsUpTo(GeometryNames, MaxFeatures)

\* iterfeatures() / shape.values(): the features of a file, with their ids
Features(file) ==
    [i \in 1..Len(file) |-> [id |-> FeatureId(i), geometry |-> Geometry(file[i])]]

InSeq(x, s) == \E i \in 1..Len(s) : s[i] = x

\* the features a reader keeps: LineString and Polygon features, reduced to
\* the ids in variables "if variables"
SelectFeatures(file, variables) ==
    LET geometries == {"LineString", "Polygon"}
        OfInterest(ft) == ft.geometry.type \in geometries
        f == SelectSeq(Features(file), OfInterest)
        Wanted(ft) == InSeq(ft.id, variables.val)
    IN  IF Truthy(variables) THEN SelectSeq(f, Wanted) ELSE f

\* ------------------------------------------------------------- geometry
\* pyproj transformer between identical CRS (always_xy): the identity
Transform(coords) == coords

Close(coords) ==
    IF coords # <<>> /\ coords[1] # Last(coords)
    THEN Append(coords, coords[1]) ELSE coords

\* shapely.geometry.Polygon(shell): a LinearRing needs 3 coordinate tuples
PolygonOk(coords) == Len(coords) >= 3

Polygon(coords, id) == [exterior |-> Close(coords), id |-> id]

Cross(o, a, b) ==
    (a[1] - o[1]) * (b[2] - o[2]) - (a[2] - o[2]) * (b[1] - o[1])

Dist2(a, b) ==
    (a[1] - b[1]) * (a[1] - b[1]) + (a[2] - b[2]) * (a[2] - b[2])

\* shoelace formula over a closed ring: twice the signed area
SignedArea2(ring) ==
    SumSeq([i \in 1..(Len(ring) - 1) |->
              ring[i][1] * ring[i + 1][2] - ring[i + 1][1] * ring[i][2]])

\* p lies on the segment a-b
OnSegment(a, b, p) ==
    /\ Cross(a, b, p) = 0
    /\ (a[1] - p[1]) * (b[1] - p[1]) <= 0
    /\ (a[2] - p[2]) * (b[2] - p[2]) <= 0

\* the segments a-b and c-d have a point in common
Intersect(a, b, c, d) ==
    \/ /\ Cross(a, b, c) * Cross(a, b, d) < 0
       /\ Cross(c, d, a) * Cross(c, d, b) < 0
    \/ OnSegment(a, b, c) \/ OnSegment(a, b, d)
    \/ OnSegment(c, d, a) \/ OnSegment(c, d, b)

\* poly_obj.is_valid for a polygon of one ring: the ring has an area, visits
\* no vertex twice, two edges that follow each other do not fold back and two
\* that do not follow each other have no point in common
is_valid(ring) ==
    LET n == Len(ring) - 1
        Nxt(i) == (i % n) + 1
    IN  /\ n >= 3
        /\ SignedArea2(ring) # 0
        /\ \A i, j \in 1..n : ring[i] = ring[j] => i = j
        /\ \A i \in 1..n : ~OnSegment(ring[i], ring[Nxt(i)], ring[Nxt(Nxt(i))])
        /\ \A i, j \in 1..n :
              (i < j /\ Nxt(i) # j /\ Nxt(j) # i) =>
                  ~Intersect(ring[i], ring[Nxt(i)], ring[j], ring[Nxt(j)])

\* a there-and-back excursion v, w, v is cut down to v
RECURSIVE RemoveSpikes(_)
RemoveSpikes(ring) ==
    LET I == {i \in 2..(Len(ring) - 1) : ring[i - 1] = ring[i + 1]}
    IN  IF I = {} THEN ring
        ELSE LET i == SetMin(I)
             IN  RemoveSpikes(SubSeq(ring, 1, i - 1) \o SubSeq(ring, i + 2, Len(ring)))

\* poly_obj.buffer(0) of an invalid polygon of the catalog: what the ring
\* encloses.  Excursions of no width enclose nothing and a ring of no area
\* gives the empty polygon (no exterior).  Rings whose edges cross are not
\* in the catalog
buffer0(ring) ==
    LET r == RemoveSpikes(ring)
    IN  IF Len(r) < 4 \/ SignedArea2(r) = 0 THEN <<>> ELSE r

\* poly_obj as it is appended to poly_list: the polygon, or its buffer(0)
\* when it is not valid
PolyObj(coords, id) ==
    LET poly_obj == Polygon(coords, id)
    IN  IF ~is_valid(poly_obj.exterior)
        THEN [poly_obj EXCEPT !.exterior = buffer0(@)]
        ELSE poly_obj

NoFeature == [kind |-> None, geoms |-> <<>>, exterior |-> <<>>]
\* shapely.geometry.MultiPolygon(poly_list) (shapely 1.7, 1.8): empty polygons
\* of the list are left out
MultiPolygon(poly_list) ==
    [kind |-> "MultiPolygon",
     geoms |-> SelectSeq(poly_list, LAMBDA g : g.exterior # <<>>),
     exterior |-> <<>>]
SinglePolygon(ring) == [kind |-> "Polygon", geoms |-> <<>>, exterior |-> ring]

\* ---------------------------------------------------------------- readers
\* Each reader turns one selected feature into the polygons it appends, or
\* raises.  ok = FALSE is the exception of the numpy / shapely call named.

\* from_geojson: x,y = np.transpose(coordinates).  A LineString's (m,2) array
\* gives x and y; a one-ring Polygon's (1,m,2) array gives (m,1) columns; two
\* or more rings give (m,2r) columns (or a ragged array), which Polygon refuses
GeojsonPolygons(ft) ==
    LET c == ft.geometry.coordinates
    IN  IF ft.geometry.type = "LineString"
        THEN [ok |-> PolygonOk(c), polys |-> <<PolyObj(Transform(c), ft.id)>>]
        ELSE IF Len(c) = 1
        THEN [ok |-> PolygonOk(c[1]), polys |-> <<PolyObj(Transform(c[1]), ft.id)>>]
        ELSE [ok |-> FALSE, polys |-> <<>>]

\* from_kml: coords = np.squeeze(coordinates); coords[:,0], coords[:,1].  The
\* squeeze drops a one-ring Polygon's leading axis; with more rings the
\* columns are points of different rings (or the array is ragged): raises
KmlPolygons(ft) ==
    LET c == ft.geometry.coordinates
    IN  IF ft.geometry.type = "LineString"
        THEN [ok |-> PolygonOk(c), polys |-> <<PolyObj(Transform(c), ft.id)>>]
        ELSE IF Len(c) = 1
        THEN [ok |-> PolygonOk(c[1]), polys |-> <<PolyObj(Transform(c[1]), ft.id)>>]
        ELSE [ok |-> FALSE, polys |-> <<>>]

\* from_shapefile: for coords in coordinates.  A Polygon's coordinates are
\* its rings, each appended as a polygon of its own; a LineString's are its
\* points, and Polygon of the one point of np.c_[xi,yi] raises
ShapefilePolygons(ft) ==
    LET c == ft.geometry.coordinates
    IN  IF ft.geometry.type = "LineString"
        THEN [ok |-> c = <<>>, polys |-> <<>>]
        ELSE [ok |-> \A i \in 1..Len(c) : PolygonOk(c[i]),
              polys |-> [i \in 1..Len(c) |-> PolyObj(Transform(c[i]), ft.id)]]

\* the loop over the selected features and the assignments that follow it
ReadResult(per) ==
    IF \A i \in 1..Len(per) : per[i].ok
    THEN LET poly_list == Flatten([i \in 1..Len(per) |-> per[i].polys])
             feature == MultiPolygon(poly_list)
         IN  [status |-> "ok", exc |-> None,
              feature |-> feature, shape |-> <<Len(feature.geoms)>>]
    ELSE [status |-> "raise", exc |-> "ValueError",
          feature |-> NoFeature, shape |-> <<>>]

from_geojson(file, variables) ==
    LET f == SelectFeatures(file, variables)
    IN  ReadResult([i \in 1..Len(f) |-> GeojsonPolygons(f[i])])

from_kml(file, variables) ==
    LET f == SelectFeatures(file, variables)
    IN  ReadResult([i \in 1..Len(f) |-> KmlPolygons(f[i])])

from_shapefile(file, variables) ==
    LET f == SelectFeatures(file, variables)
    IN  ReadResult([i \in 1..Len(f) |-> ShapefilePolygons(f[i])])

Readers == {"from_geojson", "from_kml", "from_shapefile"}

Read(reader, file, variables) ==
    CASE reader = "from_geojson" -> from_geojson(file, variables)
      [] reader = "from_kml" -> from_kml(file, variables)
      [] reader = "from_shapefile" -> from_shapefile(file, variables)

\* ------------------------------------------------- bounds, hull, exterior
\* the vertices of a geometric object
Vertices(feature) ==
    IF feature.kind = "MultiPolygon"
    THEN UNION {{feature.geoms[i].exterior[j] :
                    j \in 1..Len(feature.geoms[i].exterior)} :
                i \in 1..Len(feature.geoms)}
    ELSE {feature.exterior[j] : j \in 1..Len(feature.exterior)}

\* bounds taken over the first member only
boundsFirstMember(feature) ==
    LET P == IF feature.kind = "MultiPolygon" /\ feature.geoms # <<>>
             THEN {feature.geoms[1].exterior[j] :
                      j \in 1..Len(feature.geoms[1].exterior)}
             ELSE {}
    IN  IF P = {}
        THEN [status |-> "ok", exc |-> None, value |-> <<>>]
        ELSE [status |-> "ok", exc |-> None,
              value |-> <<SetMin({p[1] : p \in P}), SetMin({p[2] : p \in P}),
                          SetMax({p[1] : p \in P}), SetMax({p[2] : p \in P})>>]

\* self.feature.bounds: shapely 1.x returns the empty tuple for an empty
\* geometry, (minx, miny, maxx, maxy) otherwise; None has no attribute bounds
bounds(feature) ==
    LET P == Vertices(feature)
    IN  IF feature.kind = None
        THEN [status |-> "raise", exc |-> "AttributeError", value |-> <<>>]
        ELSE IF P = {}
        THEN [status |-> "ok", exc |-> None, value |-> <<>>]
        ELSE [status |-> "ok", exc |-> None,
              value |-> <<SetMin({p[1] : p \in P}), SetMin({p[2] : p \in P}),
                          SetMax({p[1] : p \in P}), SetMax({p[2] : p \in P})>>]

\* the lowest, then leftmost, point: a vertex of the hull
Lowest(P) ==
    CHOOSE p \in P : \A q \in P : p[2] < q[2] \/ (p[2] = q[2] /\ p[1] <= q[1])

\* the hull vertex that follows p counter-clockwise: every other point lies
\* to the left of p -> q, or on it and nearer to p
NextOnHull(P, p) ==
    CHOOSE q \in P \ {p} :
        \A r \in P \ {p, q} :
            \/ Cross(p, q, r) > 0
            \/ Cross(p, q, r) = 0 /\ Dist2(p, r) < Dist2(p, q)

RECURSIVE March(_, _, _)
March(P, start, ring) ==
    LET q == NextOnHull(P, Last(ring))
    IN  IF q = start THEN ring ELSE March(P, start, Append(ring, q))

\* the extreme points of P in counter-clockwise order, from the lowest one
HullVertices(P) ==
    IF Cardinality(P) <= 1 THEN SetToSeqOne(P)
    ELSE March(P, Lowest(P), <<Lowest(P)>>)

Rotate(s, k) == [i \in 1..Len(s) |-> s[((i + k - 1) % Len(s)) + 1]]

\* GEOS ConvexHull of the object: a closed ring through the extreme points.
\* Which vertex the ring starts at and which way it winds is the library's
\* choice: every rotation, in both directions, is an outcome.  Fewer than
\* three extreme points give a geometry that is no polygon.
GeosConvexHull(feature) ==
    LET h == HullVertices(Vertices(feature))
    IN  IF Len(h) < 3 THEN {}
        ELSE {Close(Rotate(h, k)) : k \in 0..(Len(h) - 1)}
             \cup {Close(Reverse(Rotate(h, k))) : k \in 0..(Len(h) - 1)}

\* orient that returns the ring as the library wound it
orientKeep(ring, sign) == ring

\* shapely.geometry.polygon.orient(polygon, sign): the exterior as it is when
\* signed_area(ring) / sign >= 0, reversed otherwise
orient(ring, sign) ==
    IF SignedArea2(ring) * sign >= 0 THEN ring ELSE Reverse(ring)

\* the envelope in place of the hull: the box around the hull's vertices
convex_hullEnvelope(hull) ==
    LET X == {hull[i][1] : i \in 1..Len(hull)}
        Y == {hull[i][2] : i \in 1..Len(hull)}
    IN  [feature |-> SinglePolygon(
                        <<<<SetMin(X), SetMin(Y)>>, <<SetMax(X), SetMin(Y)>>,
                          <<SetMax(X), SetMax(Y)>>, <<SetMin(X), SetMax(Y)>>,
                          <<SetMin(X), SetMin(Y)>>>>),
         shape |-> <<>>]

\* convex_hull(), given the hull GEOS returned: the new self.feature and
\* self.shape (np.shape of a geometry: the empty tuple)
convex_hull(hull) ==
    [feature |-> SinglePolygon(orient(hull, 1)), shape |-> <<>>]

\* xy(): self.feature.exterior.xy.  A MultiPolygon has no exterior
xy(feature) ==
    IF feature.kind = "Polygon"
    THEN [status |-> "ok", exc |-> None, value |-> feature.exterior]
    ELSE [status |-> "raise", exc |-> "AttributeError", value |-> <<>>]

\* ---------------------------------------------------------------- cluster
\* 1000 * ln(n), rounded, for n = 1..16
LnTable ==
    <<0, 693, 1099, 1386, 1609, 1792, 1946, 2079,
      2197, 2303, 2398, 2485, 2565, 2639, 2708, 2773>>
Ln1000(n) == LnTable[n]

\* the within-cluster sums of squares KMeans may report
InertiaValues == {0, 1, 2, 12}

\* AIC = -2*log_lik + 2*(i+1) with
\* log_lik = 0.5*(-nmax*(log(2 pi) + 1 - log(nmax) + log(wcss))), in 1/1000;
\* log(0) is -inf, which makes the score -inf
AICScore(nmax, w, i) ==
    IF w = 0 THEN NegInf
    ELSE nmax * (1838 + 1000 - Ln1000(nmax) + Ln1000(w)) + 2000 * (i + 1)

\* np.nonzero(AIC[1:] < AIC[0:-1]): the 0-based indices j with
\* AIC[j+1] < AIC[j] (AIC is 1-based here: AIC[j+2] < AIC[j+1])
Decreases(AIC) == {j \in 0..(Len(AIC) - 2) : AIC[j + 2] < AIC[j + 1]}

\* n_clusters = np.max(np.nonzero(AIC[1:] < AIC[0:-1]))
ElbowIndex(AIC) == SetMax(Decreases(AIC))

\* the number of distinct centroids: the rings of the catalog have pairwise
\* different centroids
DistinctCentroids(feature) ==
    Cardinality({feature.geoms[i].exterior : i \in 1..Len(feature.geoms)})

\* len(np.squeeze([g.centroid.xy for g in self.feature])): the squeeze of a
\* (1,2,1) array is the 2-vector of the one centroid
CentroidRows(n) == IF n = 1 THEN 2 ELSE n

Zeros(n) == [j \in 1..n |-> 0]

IdleFrame ==
    [pc |-> "idle", max_clusters |-> 0, n |-> 0, nmax |-> 0, i |-> 0,
     wcss |-> <<>>, AIC |-> <<>>, n_clusters |-> 0, k |-> <<>>,
     temp |-> [feature |-> <<>>, shape |-> <<>>], exc |-> None]

\* ------------------------------------------------------ the version query
Digit == <<"0", "1", "2", "3", "4", "5", "6", "7", "8", "9">>

\* int(version) of a string of decimal digits
RECURSIVE int(_)
int(s) ==
    IF s = <<>> THEN 0
    ELSE 10 * int(SubSeq(s, 1, Len(s) - 1))
         + (CHOOSE d \in 0..9 : Digit[d + 1] = s[Len(s)])

\* str(version) of an integer that is not negative
RECURSIVE str(_)
str(n) ==
    IF n < 10 THEN <<Digit[n + 1]>>
    ELSE Append(str(n \div 10), Digit[(n % 10) + 1])

\* str.zfill that pads nothing
zfillNone(s, width) == s

\* str.zfill(width): zeros on the left up to the width, never a cut
zfill(s, width) ==
    IF Len(s) >= width THEN s
    ELSE [j \in 1..(width - Len(s)) |-> "0"] \o s

IdleQuery ==
    [pc |-> "idle", version |-> 0, desired_pad_length |-> 0,
     query_params |-> <<>>, exc |-> None]

NoQuery ==
    [version |-> <<>>, pad |-> 0, cli |-> IdleQuery, utilities |-> IdleQuery]

\* ------------------------------------------------------------------ state
VARIABLES
    pc,        \* where the caller is: a CLI position, or "api" (library use)
    args,      \* the CLI's BBOX and POLYGON arguments
    file,      \* the features of the polygon file last read
    call,      \* the reader call last made: reader, f, variables, flag
    self,      \* the polygon object: feature, shape, epsg
    ret,       \* the last method call's outcome: value returned or exception
    flags,     \* the CLI's bounds_flag and spatial_flag
    requests,  \* the CMR requests issued
    cl,        \* the frame of cluster(): its locals and position
    fs,        \* the directory and the archive the reader last looked at
    cmr,       \* the locals of the granule search and of the download loop
    batch,     \* main(): the products given, and the calls made for them
    vq         \* build_version_query: its arguments and both copies' frames

vars == <<pc, args, file, call, self, ret, flags, requests, cl, fs, cmr, batch,
          vq>>

\* polygon.__init__(epsg=4326)
NewPolygon ==
    [filename |-> NoneV, feature |-> NoFeature, shape |-> <<>>, epsg |-> epsg]

NoCall ==
    [reader |-> None, f |-> <<>>, variables |-> NoneV, flag |-> FALSE,
     raised |-> None]
NoRet == [op |-> None, status |-> None, exc |-> None, value |-> <<>>]
NoFlags ==
    [bounds_flag |-> NoneV, spatial_flag |-> [kind |-> None, val |-> <<>>]]
NoArgs == [BBOX |-> NoneV, POLYGON |-> NoneV, LIST |-> FALSE]
NoCmr ==
    [cmr_scroll_id |-> NoneV, granules |-> <<>>, pages |-> <<>>,
     page_num |-> 0, p |-> 0, orders |-> <<>>]
NoBatch == [product |-> <<>>, p |-> 0, calls |-> <<>>]

\* the --polygon arguments tried: <stem><ext><suffix>
Stems == {<<"a">>, <<"d", ".", "e", "/", "a">>}
Exts == {ext_shp, ext_zip, ext_kml, ext_kmz, ext_json, ext_geojson, ext_txt, <<>>}
Suffixes == {<<>>, <<"[", "B", "]">>, <<"[", "A", ",", "C", "]">>, <<"[", "]">>}
PolygonArgs == {st \o e \o su : st \in Stems, e \in Exts, su \in Suffixes}

ArgSets ==
    {[BBOX |-> NoneV, POLYGON |-> NoneV, LIST |-> FALSE],
     [BBOX |-> Some(<<0, 0, 4, 4>>), POLYGON |-> NoneV, LIST |-> FALSE],
     [BBOX |-> Some(<<0, 0, 4, 4>>), POLYGON |-> Some(<<"a">> \o ext_shp),
      LIST |-> FALSE]}
    \cup {[BBOX |-> NoneV, POLYGON |-> Some(p), LIST |-> FALSE] :
             p \in PolygonArgs}

\* the variables a library caller passes to a reader
ApiVariables ==
    {NoneV, Some(<<>>), Some(<< <<"B">> >>), Some(<< <<"A">>, <<"C">> >>)}

\* ------------------------------------------------------- the file system
\* One directory is modelled: fs.dir is its path as the caller names it (the
\* empty path is the working directory), fs.listing what os.listdir returns
\* for it, in the order the system chose.  fs.namelist is ZipFile.namelist()
\* of the archive a compressed file is.
Basename(p) == SubSeq(p, RFind(p, "/") + 1, Len(p))

Dirname(p) ==
    LET i == RFind(p, "/")
    IN  IF i = 0 THEN <<>> ELSE IF i = 1 THEN <<"/">> ELSE SubSeq(p, 1, i - 1)

Join(directory, name) ==
    IF directory = <<>> THEN name
    ELSE IF Last(directory) = "/" THEN directory \o name
    ELSE directory \o <<"/">> \o name

\* re.I: letters compare by their lower case
Lower(c) ==
    CASE c = "A" -> "a" [] c = "B" -> "b" [] c = "K" -> "k" [] c = "M" -> "m"
      [] c = "L" -> "l" [] c = "X" -> "x" [] c = "D" -> "d"
      [] OTHER -> c

\* re.match(pattern, s, re.I) for a pattern of letters and dots: the match is
\* anchored at the start of s only, and "." stands for any character
ReMatchI(pattern, s) ==
    /\ Len(s) >= Len(pattern)
    /\ \A i \in 1..Len(pattern) :
          pattern[i] = "." \/ Lower(pattern[i]) = Lower(s[i])

\* os.access(filename, os.F_OK)
Exists(disk, filename) ==
    /\ Dirname(filename) = disk.dir
    /\ InSeq(Basename(filename), disk.listing)

\* case_insensitive_filename: self.filename as it is left, or the exception.
\* os.listdir raises FileNotFoundError for the empty path and for a directory
\* that does not exist
case_insensitive_filename(disk, filename) ==
    IF Exists(disk, filename)
    THEN [status |-> "ok", exc |-> None, filename |-> filename]
    ELSE LET basename == Basename(filename)
             directory == Dirname(filename)
             f == SelectSeq(disk.listing, LAMBDA e : ReMatchI(basename, e))
         IN  IF directory = <<>> \/ directory # disk.dir
             THEN [status |-> "raise", exc |-> "FileNotFoundError",
                   filename |-> filename]
             ELSE IF f = <<>>
             THEN [status |-> "raise", exc |-> "IOError", filename |-> filename]
             ELSE [status |-> "ok", exc |-> None,
                   filename |-> Join(directory, Last(f))]

EndsWith(s, suffix) ==
    /\ Len(s) >= Len(suffix)
    /\ SubSeq(s, Len(s) - Len(suffix) + 1, Len(s)) = suffix

\* kml_file, = [s for s in z.namelist() if re.search(r'\.(kml)$',s)]: the
\* target of the assignment is a tuple of one name, so a list of any other
\* length raises ValueError
KmzMember(namelist) ==
    LET found == SelectSeq(namelist, LAMBDA m : EndsWith(m, ext_kml))
    IN  IF Len(found) = 1
        THEN [status |-> "ok", exc |-> None, kml_file |-> found[1]]
        ELSE [status |-> "raise", exc |-> "ValueError", kml_file |-> <<>>]

doc_kml == <<"d">> \o ext_kml

NoDisk == [dir |-> <<>>, listing |-> <<>>, namelist |-> <<>>, kml_file |-> <<>>]

\* a directory that holds the file as it is named, an archive of one .kml
ExistingDisk(filename) ==
    [dir |-> Dirname(filename), listing |-> <<Basename(filename)>>,
     namelist |-> <<doc_kml>>, kml_file |-> <<>>]

\* ---------------------------------------------------------- method calls
\* a reader called on self, for the file named filename of the directory
\* disk, the features of the file being f: self.filename is set first, a
\* compressed KML is unpacked next; on success self.feature and self.shape
\* are set
DoRead(reader, filename, flag, variables, disk, f) ==
    LET res == case_insensitive_filename(disk, filename)
        z == IF reader = "from_kml" /\ flag
             THEN KmzMember(disk.namelist)
             ELSE [status |-> "ok", exc |-> None, kml_file |-> <<>>]
        r == Read(reader, f, variables)
        named == [self EXCEPT !.filename = Some(res.filename)]
        out == IF res.status = "raise" THEN [status |-> "raise", exc |-> res.exc]
               ELSE IF z.status = "raise" THEN [status |-> "raise", exc |-> z.exc]
               ELSE [status |-> r.status, exc |-> r.exc]
    IN  /\ file' = f
        /\ fs' = [disk EXCEPT !.kml_file =
                     IF res.status = "ok" THEN z.kml_file ELSE <<>>]
        /\ self' = IF out.status = "ok"
                   THEN [named EXCEPT !.feature = r.feature, !.shape = r.shape]
                   ELSE named
        /\ ret' = [op |-> reader, status |-> out.status, exc |-> out.exc,
                   value |-> <<>>]

DoBounds ==
    LET r == bounds(self.feature)
    IN  ret' = [op |-> "bounds", status |-> r.status, exc |-> r.exc,
                value |-> r.value]

\* convex_hull() that returns the hull and leaves self.feature as it is
DoConvexHullCopy ==
    LET H == GeosConvexHull(self.feature)
    IN  IF H = {}
        THEN /\ ret' = [op |-> "convex_hull", status |-> "raise",
                        exc |-> "AttributeError", value |-> <<>>]
             /\ self' = self
        ELSE /\ self' = self
             /\ ret' = [op |-> "convex_hull", status |-> "ok",
                        exc |-> None, value |-> <<>>]

\* convex_hull(): orient raises on the hull of no polygon (it has no
\* exterior) before self.feature is assigned
DoConvexHull ==
    LET H == GeosConvexHull(self.feature)
    IN  IF H = {}
        THEN /\ ret' = [op |-> "convex_hull", status |-> "raise",
                        exc |-> "AttributeError", value |-> <<>>]
             /\ self' = self
        ELSE \E hull \in H :
             LET r == convex_hull(hull)
             IN  /\ self' = [self EXCEPT !.feature = r.feature, !.shape = r.shape]
                 /\ ret' = [op |-> "convex_hull", status |-> "ok",
                            exc |-> None, value |-> <<>>]

DoXY ==
    LET r == xy(self.feature)
    IN  ret' = [op |-> "xy", status |-> r.status, exc |-> r.exc,
                value |-> r.value]

\* -------------------------------------------------------------- the CLI
Init ==
    /\ pc = "args"
    /\ args \in ArgSets
    /\ file = <<>>
    /\ call = NoCall
    /\ self = NewPolygon
    /\ ret = NoRet
    /\ flags = NoFlags
    /\ requests = <<>>
    /\ cl = IdleFrame
    /\ fs = NoDisk
    /\ cmr = NoCmr
    /\ batch = NoBatch
    /\ vq = NoQuery

\* nsidc_subset_altimetry, "if BBOX: ... elif POLYGON: ... else:" up to the
\* choice of the reader
Dispatch ==
    /\ pc = "args"
    /\ IF args.BBOX.some
       THEN /\ flags' = [bounds_flag |-> Some(args.BBOX.val),
                         spatial_flag |-> [kind |-> "bbox", val |-> args.BBOX.val]]
            /\ pc' = "cmr"
            /\ call' = call
       ELSE IF args.POLYGON.some /\ args.POLYGON.val # <<>>
       THEN /\ call' = DispatchPolygon(args.POLYGON.val)
            /\ pc' = IF call'.raised = None THEN "read" ELSE "raised"
            /\ flags' = flags
       ELSE /\ flags' = NoFlags
            /\ pc' = "cmr"
            /\ call' = call
    /\ UNCHANGED <<args, file, self, ret, requests, cl, fs, cmr, batch, vq>>

\* the reader call: mpoly = polygon().from_...(f, variables=v, ...)
CliRead ==
    /\ pc = "read"
    /\ \E f \in Files :
          DoRead(call.reader, call.f, call.flag, call.variables,
                 ExistingDisk(call.f), f)
    /\ pc' = IF ret'.status = "ok" THEN "bounds" ELSE "raised"
    /\ UNCHANGED <<args, call, flags, requests, cl, cmr, batch, vq>>

\* BBOX = mpoly.bounds(); bounds_flag = '...{3:f}'.format(*BBOX): formatting
\* fewer than four values raises IndexError
CliBounds ==
    /\ pc = "bounds"
    /\ DoBounds
    /\ IF ret'.status = "ok" /\ Len(ret'.value) = 4
       THEN /\ flags' = [flags EXCEPT !.bounds_flag = Some(ret'.value)]
            /\ pc' = "hull"
       ELSE /\ flags' = flags
            /\ pc' = "raised"
    /\ UNCHANGED <<args, file, call, self, requests, cl, fs, cmr, batch, vq>>

\* qhull = mpoly.convex_hull()
CliConvexHull ==
    /\ pc = "hull"
    /\ DoConvexHull
    /\ pc' = IF ret'.status = "ok" THEN "xy" ELSE "raised"
    /\ UNCHANGED <<args, file, call, flags, requests, cl, fs, cmr, batch, vq>>

\* X,Y = qhull.xy(); polygon_flag; spatial_flag
CliXY ==
    /\ pc = "xy"
    /\ DoXY
    /\ IF ret'.status = "ok"
       THEN /\ flags' = [flags EXCEPT !.spatial_flag =
                                    [kind |-> "polygon", val |-> ret'.value]]
            /\ pc' = "cmr"
       ELSE /\ flags' = flags
            /\ pc' = "raised"
    /\ UNCHANGED <<args, file, call, self, requests, cl, fs, cmr, batch, vq>>

\* ------------------------------------------------- the granule search
\* A response of the CMR: the cmr-scroll-id header and the JSON body.  The
\* bodies tried: no 'feed', a feed with no 'entry', no entries, entries with
\* no link of the wanted type, entries with one link or more of it (3 urls
\* in 2 entries), and a page of page_size entries of one url each.  The url
\* of a granule is <<number of the page, position>>.
hdfeos == "application/x-hdfeos"
html == "text/html"
ScrollIds == {"s1", "s2"}
EmptyKinds == {"nofeed", "noentry", "empty", "other"}
PageKinds == EmptyKinds \cup {"few", "full"}

Link(type, href) == [type |-> type, href |-> href]
Feed(entry) == [feed |-> Some([entry |-> Some(entry)])]

Body(kind, n) ==
    CASE kind = "nofeed" -> [feed |-> NoneV]
      [] kind = "noentry" -> [feed |-> Some([entry |-> NoneV])]
      [] kind = "empty" -> Feed(<<>>)
      [] kind = "other" ->
            Feed(<<[links |-> <<Link(Some(html), <<n, 1>>),
                                Link(NoneV, <<n, 2>>)>>]>>)
      [] kind = "few" ->
            Feed(<<[links |-> <<Link(Some(html), <<n, 0>>),
                                Link(Some(hdfeos), <<n, 1>>)>>],
                   [links |-> <<Link(Some(hdfeos), <<n, 2>>),
                                Link(NoneV, <<n, 0>>),
                                Link(Some(hdfeos), <<n, 3>>)>>]>>)
      [] kind = "full" ->
            Feed([j \in 1..page_size |->
                    [links |-> <<Link(Some(hdfeos), <<n, j>>)>>]])

\* cmr_filter_json(search_page, form): the href of every link of the type
\* form, entry by entry
cmr_filter_json(search_page, form) ==
    IF ~search_page.feed.some \/ ~search_page.feed.val.entry.some
    THEN <<>>
    ELSE LET entry == search_page.feed.val.entry.val
             Urls(links) ==
                 LET sel == SelectSeq(links,
                               LAMBDA link : link.type.some /\ link.type.val = form)
                 IN  [i \in 1..Len(sel) |-> sel[i].href]
         IN  Flatten([e \in 1..Len(entry) |-> Urls(entry[e].links)])

\* the request of a pass of "while True" that never carries the header
CmrRequestNoHeader ==
    /\ pc = "cmr"
    /\ requests' = Append(requests, [bounds_flag |-> flags.bounds_flag,
                                     scroll_id |-> NoneV])
    /\ pc' = "response"
    /\ UNCHANGED <<args, file, call, self, ret, flags, cl, fs, cmr, batch, vq>>

\* a pass of "while True", up to urlopen: the query carries bounds_flag, and
\* the cmr-scroll-id header "if cmr_scroll_id"
CmrRequest ==
    /\ pc = "cmr"
    /\ requests' = Append(requests,
          [bounds_flag |-> flags.bounds_flag,
           scroll_id |-> IF cmr.cmr_scroll_id.some /\ cmr.cmr_scroll_id.val # ""
                         THEN cmr.cmr_scroll_id ELSE NoneV])
    /\ pc' = "response"
    /\ UNCHANGED <<args, file, call, self, ret, flags, cl, fs, cmr, batch, vq>>

\* the rest of the pass: the scroll id is taken from the headers "if not
\* cmr_scroll_id", the urls of the page are filtered; none ends the loop,
\* otherwise granules is extended.  The search has MaxPages pages with urls
\* at most
CmrResponse ==
    /\ pc = "response"
    /\ \E sid \in ScrollIds, kind \in PageKinds :
          /\ Len(cmr.pages) >= MaxPages => kind \in EmptyKinds
          /\ LET n == Len(cmr.pages) + 1
                 url_scroll_results == cmr_filter_json(Body(kind, n), hdfeos)
                 read == [cmr EXCEPT
                            !.cmr_scroll_id =
                                IF ~(@.some /\ @.val # "") THEN Some(sid) ELSE @,
                            !.pages = Append(@, [scroll_id |-> sid, kind |-> kind])]
             IN  IF url_scroll_results = <<>>
                 THEN /\ cmr' = read
                      /\ pc' = "list"
                 ELSE /\ cmr' = [read EXCEPT
                                   !.granules = @ \o url_scroll_results]
                      /\ pc' = "cmr"
    /\ UNCHANGED <<args, file, call, self, ret, flags, requests, cl, fs, batch, vq>>

\* math.ceil(a / b) for a >= 0, b > 0
Ceil(a, b) == (a + b - 1) \div b

\* "if LIST": open(filepath,'index.txt','w') takes 'index.txt' for the mode
\* and 'w' for the buffering and raises TypeError; then the number of orders
ListIndex ==
    /\ pc = "list"
    /\ IF args.LIST
       THEN /\ pc' = "raised"
            /\ cmr' = cmr
       ELSE /\ pc' = "download"
            /\ cmr' = [cmr EXCEPT !.page_num = Ceil(Len(cmr.granules), page_size),
                                  !.p = 1]
    /\ UNCHANGED <<args, file, call, self, ret, flags, requests, cl, fs, batch, vq>>

\* a pass of "for p in range(1,page_num)": one request to the subsetter,
\* for page p
SubsetRequest ==
    /\ pc = "download"
    /\ cmr.p < cmr.page_num
    /\ cmr' = [cmr EXCEPT
                 !.orders = Append(@, [page_num |-> cmr.p,
                                       bounds_flag |-> flags.bounds_flag,
                                       spatial_flag |-> flags.spatial_flag]),
                 !.p = cmr.p + 1]
    /\ UNCHANGED <<pc, args, file, call, self, ret, flags, requests, cl, fs, batch, vq>>

\* the loop is over: nsidc_subset_altimetry returns
Return ==
    /\ pc = "download"
    /\ cmr.p >= cmr.page_num
    /\ pc' = "returned"
    /\ UNCHANGED <<args, file, call, self, ret, flags, requests, cl, fs, cmr, batch, vq>>

Next ==
    \/ Dispatch
    \/ CliRead
    \/ CliBounds
    \/ CliConvexHull
    \/ CliXY
    \/ CmrRequest

Spec == Init /\ [][Next]_vars

\* ------------------------------------ a run with no polygon file, to its end
CmrArgSets ==
    {[BBOX |-> b, POLYGON |-> NoneV, LIST |-> l] :
        b \in {NoneV, Some(<<0, 0, 4, 4>>)}, l \in BOOLEAN}

CmrInit ==
    /\ pc = "args"
    /\ args \in CmrArgSets
    /\ file = <<>>
    /\ call = NoCall
    /\ self = NewPolygon
    /\ ret = NoRet
    /\ flags = NoFlags
    /\ requests = <<>>
    /\ cl = IdleFrame
    /\ fs = NoDisk
    /\ cmr = NoCmr
    /\ batch = NoBatch
    /\ vq = NoQuery

CmrNext ==
    \/ Dispatch
    \/ CmrRequest
    \/ CmrResponse
    \/ ListIndex
    \/ SubsetRequest
    \/ Return

CmrSpec == CmrInit /\ [][CmrNext]_vars

\* --------------------------------------------------------------- main()
Products == {"ATL03", "ATL06"}
Batches == SeqsUpTo(Products, MaxProducts) \ {<<>>}
MainFiles == {<<>>, <<"tri", "sq">>, <<"holed">>}
MainArgSets ==
    {[BBOX |-> NoneV, POLYGON |-> NoneV, LIST |-> FALSE],
     [BBOX |-> Some(<<0, 0, 4, 4>>), POLYGON |-> NoneV, LIST |-> TRUE]}
    \cup {[BBOX |-> NoneV, POLYGON |-> Some(<<"a">> \o e), LIST |-> FALSE] :
             e \in {ext_shp, ext_kml, ext_json, ext_txt}}

MainInit ==
    /\ pc = "start"
    /\ args \in MainArgSets
    /\ file \in MainFiles
    /\ call = NoCall
    /\ self = NewPolygon
    /\ ret = NoRet
    /\ flags = NoFlags
    /\ requests = <<>>
    /\ cl = IdleFrame
    /\ fs = NoDisk
    /\ cmr = NoCmr
    /\ batch \in {[product |-> b, p |-> 0, calls |-> <<>>] : b \in Batches}
    /\ vq = NoQuery

\* check_connection(HOST): True, or RuntimeError with no connection
CheckConnection ==
    /\ pc = "start"
    /\ \E online \in BOOLEAN : pc' = IF online THEN "main" ELSE "aborted"
    /\ UNCHANGED <<args, file, call, self, ret, flags, requests, cl, fs, cmr, batch, vq>>

\* a pass of "for p in args.product": nsidc_subset_altimetry is called,
\* with locals of its own
MainCall ==
    /\ pc = "main"
    /\ batch.p < Len(batch.product)
    /\ batch' = [batch EXCEPT !.p = @ + 1,
                              !.calls = Append(@, batch.product[batch.p + 1])]
    /\ pc' = "args"
    /\ call' = NoCall
    /\ self' = NewPolygon
    /\ ret' = NoRet
    /\ flags' = NoFlags
    /\ requests' = <<>>
    /\ cmr' = NoCmr
    /\ UNCHANGED <<args, file, cl, fs, vq>>

\* the call returned: the loop goes on
MainReturn ==
    /\ pc = "returned"
    /\ pc' = "main"
    /\ UNCHANGED <<args, file, call, self, ret, flags, requests, cl, fs, cmr, batch, vq>>

\* the products are done: main returns
MainExit ==
    /\ pc = "main"
    /\ batch.p >= Len(batch.product)
    /\ pc' = "exit"
    /\ UNCHANGED <<args, file, call, self, ret, flags, requests, cl, fs, cmr, batch, vq>>

\* an exception raised in nsidc_subset_altimetry: neither it nor main has a
\* try statement around the call, so it leaves the loop and main
Propagate ==
    /\ pc = "raised"
    /\ pc' = "aborted"
    /\ UNCHANGED <<args, file, call, self, ret, flags, requests, cl, fs, cmr, batch, vq>>

\* the reader call of a run of main: the polygon file is the one on disk
MainRead ==
    /\ pc = "read"
    /\ DoRead(call.reader, call.f, call.flag, call.variables,
              ExistingDisk(call.f), file)
    /\ pc' = IF ret'.status = "ok" THEN "bounds" ELSE "raised"
    /\ UNCHANGED <<args, call, flags, requests, cl, cmr, batch, vq>>

MainNext ==
    \/ CheckConnection
    \/ MainCall
    \/ Dispatch
    \/ MainRead
    \/ CliBounds
    \/ CliConvexHull
    \/ CliXY
    \/ CmrRequest
    \/ CmrResponse
    \/ ListIndex
    \/ SubsetRequest
    \/ Return
    \/ MainReturn
    \/ MainExit
    \/ Propagate

MainSpec == MainInit /\ [][MainNext]_vars

\* ------------------------------------------------- the class used directly
\* the name a library caller gives the file
ApiFilename == <<"a">>

\* a caller that holds a polygon object and a file, and calls its methods
ApiInit ==
    /\ pc = "api"
    /\ args = NoArgs
    /\ file \in Files
    /\ call = NoCall
    /\ self = NewPolygon
    /\ ret = NoRet
    /\ flags = NoFlags
    /\ requests = <<>>
    /\ cl = IdleFrame
    /\ fs = NoDisk
    /\ cmr = NoCmr
    /\ batch = NoBatch
    /\ vq = NoQuery

\* no call of cluster() is under way
Callable == pc = "api" /\ cl.pc \in {"idle", "raised", "returned"}

\* the object is read into once: polygon().from_...(file, variables=...)
ApiRead ==
    /\ Callable
    /\ self.feature.kind = None
    /\ \E reader \in Readers, variables \in ApiVariables :
          /\ DoRead(reader, ApiFilename, FALSE, variables,
                    ExistingDisk(ApiFilename), file)
          /\ call' = [reader |-> reader, f |-> ApiFilename,
                      variables |-> variables, flag |-> FALSE, raised |-> None]
    /\ cl' = IdleFrame
    /\ UNCHANGED <<pc, args, flags, requests, cmr, batch, vq>>

\* bounds() that consumes the member it has measured
ApiBoundsPopping ==
    /\ Callable
    /\ DoBounds
    /\ self' = IF self.feature.kind = "MultiPolygon" /\ self.feature.geoms # <<>>
               THEN [self EXCEPT !.feature.geoms = Tail(@)]
               ELSE self
    /\ cl' = IdleFrame
    /\ UNCHANGED <<pc, args, file, call, flags, requests, fs, cmr, batch, vq>>

ApiBounds ==
    /\ Callable
    /\ DoBounds
    /\ cl' = IdleFrame
    /\ UNCHANGED <<pc, args, file, call, self, flags, requests, fs, cmr, batch, vq>>

ApiConvexHull ==
    /\ Callable
    /\ DoConvexHull
    /\ cl' = IdleFrame
    /\ UNCHANGED <<pc, args, file, call, flags, requests, fs, cmr, batch, vq>>

ApiXY ==
    /\ Callable
    /\ DoXY
    /\ cl' = IdleFrame
    /\ UNCHANGED <<pc, args, file, call, self, flags, requests, fs, cmr, batch, vq>>

ApiNext ==
    \/ ApiRead
    \/ ApiBounds
    \/ ApiConvexHull
    \/ ApiXY

ApiSpec == ApiInit /\ [][ApiNext]_vars

\* ------------------------------------------- the two-squares fixture
\* files made of the unit squares (0,0)-(1,1) and (10,10)-(11,11) and of a
\* triangle
SquareFiles == SeqsUpTo({"unit0", "unit10", "tri"}, MaxFeatures)

SquaresInit ==
    /\ pc = "api"
    /\ args = NoArgs
    /\ file \in SquareFiles
    /\ call = NoCall
    /\ self = NewPolygon
    /\ ret = NoRet
    /\ flags = NoFlags
    /\ requests = <<>>
    /\ cl = IdleFrame
    /\ fs = NoDisk
    /\ cmr = NoCmr
    /\ batch = NoBatch
    /\ vq = NoQuery

SquaresSpec == SquaresInit /\ [][ApiNext]_vars

\* ------------------------------------------------ rings that need repair
\* files of a triangle, of a square with an excursion of no width, and of
\* three points in line
RepairFiles == SeqsUpTo({"tri", "spike", "flat"}, MaxFeatures)

RepairInit ==
    /\ pc = "api"
    /\ args = NoArgs
    /\ file \in RepairFiles
    /\ call = NoCall
    /\ self = NewPolygon
    /\ ret = NoRet
    /\ flags = NoFlags
    /\ requests = <<>>
    /\ cl = IdleFrame
    /\ fs = NoDisk
    /\ cmr = NoCmr
    /\ batch = NoBatch
    /\ vq = NoQuery

RepairSpec == RepairInit /\ [][ApiNext]_vars

\* ------------------------------------------- a file looked up and unpacked
\* the names a caller asks for, and the entries a directory may hold
Directories == {<<>>, <<"d">>}
Requested ==
    {Join(d, n) : d \in Directories,
                  n \in {<<"a", ".", "k">>, <<"A", ".", "K">>}}

NoRepeat(q) == \A i, j \in 1..Len(q) : q[i] = q[j] => i = j
Listings ==
    {q \in SeqsUpTo({<<"a", ".", "k">>, <<"A", ".", "k">>,
                     <<"a", ".", "k", "x">>, <<"a", "x", "k">>}, MaxEntries) :
        NoRepeat(q)}
Namelists ==
    {q \in SeqsUpTo({doc_kml, <<"e">> \o ext_kml,
                     <<"i", ".", "p", "n", "g">>}, MaxEntries) :
        NoRepeat(q)}
Disks ==
    {[dir |-> d, listing |-> l, namelist |-> n, kml_file |-> <<>>] :
        d \in Directories, l \in Listings, n \in Namelists}

FileInit ==
    /\ pc = "api"
    /\ args = NoArgs
    /\ file = <<"tri", "sq">>
    /\ call = NoCall
    /\ self = NewPolygon
    /\ ret = NoRet
    /\ flags = NoFlags
    /\ requests = <<>>
    /\ cl = IdleFrame
    /\ fs \in Disks
    /\ cmr = NoCmr
    /\ batch = NoBatch
    /\ vq = NoQuery

\* polygon().from_...(filename, ...) with the directory as it is: the name
\* is looked up, a compressed KML is unpacked, the features are read
FileRead ==
    /\ Callable
    /\ self.filename = NoneV
    /\ \E reader \in Readers, filename \in Requested, flag \in BOOLEAN :
          /\ DoRead(reader, filename, flag, NoneV, fs, file)
          /\ call' = [reader |-> reader, f |-> filename, variables |-> NoneV,
                      flag |-> flag, raised |-> None]
    /\ cl' = IdleFrame
    /\ UNCHANGED <<pc, args, flags, requests, cmr, batch, vq>>

FileNext ==
    \/ FileRead
    \/ ApiBounds

FileSpec == FileInit /\ [][FileNext]_vars

\* ---------------------------------- the methods, from the CLI and directly
\* a run of the CLI up to its first search request, or a caller of the class
MethodsInit == Init \/ ApiInit
MethodsNext == Next \/ ApiNext
MethodsSpec == MethodsInit /\ [][MethodsNext]_vars

\* ------------------------------------------- build_version_query, by step

\* both copies are called with one version string and one pad length
VersionInit ==
    /\ pc = "version"
    /\ args = NoArgs
    /\ file = <<>>
    /\ call = NoCall
    /\ self = NewPolygon
    /\ ret = NoRet
    /\ flags = NoFlags
    /\ requests = <<>>
    /\ cl = IdleFrame
    /\ fs = NoDisk
    /\ cmr = NoCmr
    /\ batch = NoBatch
    /\ vq \in {[version |-> v, pad |-> d, cli |-> IdleQuery,
                utilities |-> IdleQuery] :
                   v \in SeqsUpTo({"0", "1", "9"}, MaxVersionLen) \ {<<>>},
                   d \in 0..MaxPad}

\* nsidc_subset_altimetry.py, build_version_query up to its while statement
BuildVersionQueryEnter ==
    /\ pc = "version"
    /\ vq.cli.pc = "idle"
    /\ vq' = [vq EXCEPT !.cli =
                 IF Len(vq.version) > vq.pad
                 THEN [@ EXCEPT !.pc = "raised", !.exc = "Exception"]
                 ELSE [@ EXCEPT !.pc = "while",
                                !.version = int(vq.version),
                                !.query_params = <<>>,
                                !.desired_pad_length = vq.pad]]
    /\ UNCHANGED <<pc, args, file, call, self, ret, flags, requests, cl, fs,
                   cmr, batch>>

\* nsidc_subset_altimetry.py, one test of the while condition: a pass of the
\* loop body, or the return
BuildVersionQueryPass ==
    /\ pc = "version"
    /\ vq.cli.pc = "while"
    /\ vq' = [vq EXCEPT !.cli =
                 IF Len(str(@.version)) <= @.desired_pad_length
                 THEN LET padded_version ==
                              zfill(str(@.version), @.desired_pad_length)
                      IN  [@ EXCEPT !.query_params =
                                        @ \o <<"&version=">> \o padded_version,
                                    !.desired_pad_length = @ - 1]
                 ELSE [@ EXCEPT !.pc = "returned"]]
    /\ UNCHANGED <<pc, args, file, call, self, ret, flags, requests, cl, fs,
                   cmr, batch>>

\* utilities.py, build_version_query up to its while statement
UtilitiesVersionQueryEnter ==
    /\ pc = "version"
    /\ vq.utilities.pc = "idle"
    /\ vq' = [vq EXCEPT !.utilities =
                 IF Len(vq.version) > vq.pad
                 THEN [@ EXCEPT !.pc = "raised", !.exc = "Exception"]
                 ELSE [@ EXCEPT !.pc = "while",
                                !.version = int(vq.version),
                                !.query_params = <<>>,
                                !.desired_pad_length = vq.pad]]
    /\ UNCHANGED <<pc, args, file, call, self, ret, flags, requests, cl, fs,
                   cmr, batch>>

\* utilities.py, one test of the while condition
UtilitiesVersionQueryPass ==
    /\ pc = "version"
    /\ vq.utilities.pc = "while"
    /\ vq' = [vq EXCEPT !.utilities =
                 IF Len(str(@.version)) <= @.desired_pad_length
                 THEN LET padded_version ==
                              zfill(str(@.version), @.desired_pad_length)
                      IN  [@ EXCEPT !.query_params =
                                        @ \o <<"&version=">> \o padded_version,
                                    !.desired_pad_length = @ - 1]
                 ELSE [@ EXCEPT !.pc = "returned"]]
    /\ UNCHANGED <<pc, args, file, call, self, ret, flags, requests, cl, fs,
                   cmr, batch>>

VersionNext ==
    \/ BuildVersionQueryEnter
    \/ BuildVersionQueryPass
    \/ UtilitiesVersionQueryEnter
    \/ UtilitiesVersionQueryPass

\* a call that has begun goes on to its next statement
VersionSpec == VersionInit /\ [][VersionNext]_vars /\ WF_vars(VersionNext)

\* ------------------------------------------------------ cluster(), by step
ClusterRaise(frame, exc) == [frame EXCEPT !.pc = "raised", !.exc = exc]
ClusterRet(exc) ==
    [op |-> "cluster", status |-> "raise", exc |-> exc, value |-> <<>>]

\* cluster(max_clusters): the centroids and the two arrays of zeros.  A
\* feature that is no MultiPolygon cannot be iterated
ClusterCall ==
    /\ Callable
    /\ \E max_clusters \in 1..MaxClusters :
          IF self.feature.kind # "MultiPolygon"
          THEN /\ cl' = ClusterRaise([IdleFrame EXCEPT
                                        !.max_clusters = max_clusters], "TypeError")
               /\ ret' = ClusterRet("TypeError")
          ELSE /\ cl' = [IdleFrame EXCEPT
                           !.pc = "fit",
                           !.max_clusters = max_clusters,
                           !.n = Len(self.feature.geoms),
                           !.nmax = CentroidRows(Len(self.feature.geoms)),
                           !.i = 1,
                           !.wcss = Zeros(max_clusters - 1),
                           !.AIC = Zeros(max_clusters - 1)]
               /\ ret' = ret
    /\ UNCHANGED <<pc, args, file, call, self, flags, requests, fs, cmr, batch, vq>>

\* one pass of "for i in range(1, max_clusters)": KMeans(n_clusters=i).fit
\* raises on a 1-D array (n <= 1) and on fewer samples than clusters; the
\* inertia it reports is 0 exactly when every distinct centroid is a centre,
\* and does not grow with i
KMeansFit ==
    /\ pc = "api"
    /\ cl.pc = "fit"
    /\ cl.i < cl.max_clusters
    /\ IF cl.n <= 1 \/ cl.i > cl.n
       THEN /\ cl' = ClusterRaise(cl, "ValueError")
            /\ ret' = ClusterRet("ValueError")
       ELSE /\ \E w \in InertiaValues :
                 /\ (w = 0) = (cl.i >= DistinctCentroids(self.feature))
                 /\ cl.i > 1 => w <= cl.wcss[cl.i - 1]
                 /\ cl' = [cl EXCEPT !.wcss[cl.i] = w,
                                     !.AIC[cl.i] = AICScore(cl.nmax, w, cl.i),
                                     !.i = cl.i + 1]
            /\ ret' = ret
    /\ UNCHANGED <<pc, args, file, call, self, flags, requests, fs, cmr, batch, vq>>

\* n_clusters = np.max(np.nonzero(AIC[1:] < AIC[0:-1])): np.max of an empty
\* array raises ValueError
ElbowSelect ==
    /\ pc = "api"
    /\ cl.pc = "fit"
    /\ cl.i >= cl.max_clusters
    /\ IF Decreases(cl.AIC) = {}
       THEN /\ cl' = ClusterRaise(cl, "ValueError")
            /\ ret' = ClusterRet("ValueError")
       ELSE /\ cl' = [cl EXCEPT !.pc = "partition",
                                !.n_clusters = ElbowIndex(cl.AIC)]
            /\ ret' = ret
    /\ UNCHANGED <<pc, args, file, call, self, flags, requests, fs, cmr, batch, vq>>

\* the labels KMeans.fit_predict may return: equal centroids share a label
Labels(feature, n_clusters) ==
    {k \in [1..Len(feature.geoms) -> 0..(n_clusters - 1)] :
        \A a, b \in 1..Len(feature.geoms) :
            feature.geoms[a].exterior = feature.geoms[b].exterior => k[a] = k[b]}

\* k = KMeans(n_clusters=n_clusters, ...).fit_predict(centroids): no
\* clustering into 0 clusters
Partition ==
    /\ pc = "api"
    /\ cl.pc = "partition"
    /\ IF cl.n_clusters = 0
       THEN /\ cl' = ClusterRaise(cl, "ValueError")
            /\ ret' = ClusterRet("ValueError")
       ELSE /\ \E k \in Labels(self.feature, cl.n_clusters) :
                 cl' = [cl EXCEPT !.pc = "output", !.k = k]
            /\ ret' = ret
    /\ UNCHANGED <<pc, args, file, call, self, flags, requests, fs, cmr, batch, vq>>

\* the output built in the object itself (temp = self): the members are
\* replaced by the empty list before the loop raises
OutputInPlace ==
    /\ pc = "api"
    /\ cl.pc = "output"
    /\ LET temp == [feature |-> <<>>, shape |-> <<cl.n_clusters>>]
       IN  /\ cl' = ClusterRaise([cl EXCEPT !.temp = temp], "TypeError")
           /\ ret' = ClusterRet("TypeError")
           /\ self' = [self EXCEPT !.feature = MultiPolygon(<<>>),
                                   !.shape = <<cl.n_clusters>>]
    /\ UNCHANGED <<pc, args, file, call, flags, requests, fs, cmr, batch, vq>>

\* temp = polygon(epsg); temp.feature = []; temp.shape = (n_clusters,); the
\* first pass of "for cluster in range(n_clusters)" indexes the MultiPolygon
\* with the boolean array k == cluster: TypeError (and an assignment to
\* temp.feature[cluster] of the empty list would be an IndexError)
Output ==
    /\ pc = "api"
    /\ cl.pc = "output"
    /\ LET temp == [feature |-> <<>>, shape |-> <<cl.n_clusters>>]
       IN  IF cl.n_clusters = 0
           THEN /\ cl' = [cl EXCEPT !.pc = "returned", !.temp = temp]
                /\ ret' = [op |-> "cluster", status |-> "ok", exc |-> None,
                           value |-> <<>>]
           ELSE /\ cl' = ClusterRaise([cl EXCEPT !.temp = temp], "TypeError")
                /\ ret' = ClusterRet("TypeError")
    /\ UNCHANGED <<pc, args, file, call, self, flags, requests, fs, cmr, batch, vq>>

ClusterNext ==
    \/ ApiRead
    \/ ClusterCall
    \/ KMeansFit
    \/ ElbowSelect
    \/ Partition
    \/ Output

ClusterSpec == ApiInit /\ [][ClusterNext]_vars

\* ================================================================ claims
\* cluster() has ended, by return or by exception, on a set that was read
ClusterEnded == cl.pc \in {"raised", "returned"}
ClusterInput == self.feature.kind = "MultiPolygon"

\* the rings a convex hull of the given members may be, wound either way
HullRings(members) == GeosConvexHull(MultiPolygon(members))

\* C1: cluster(maxClusters=N) on a non-empty set completes normally and
\* returns at most N-1 members; for N=1 it returns the one hull of the input
C1_ClusterReturnsAtMost ==
    (ClusterEnded /\ ClusterInput /\ Len(self.feature.geoms) >= 1) =>
        /\ cl.pc = "returned"
        /\ cl.max_clusters > 1 => Len(cl.temp.feature) <= cl.max_clusters - 1
        /\ cl.max_clusters = 1 =>
              /\ Len(cl.temp.feature) = 1
              /\ cl.temp.feature[1] \in HullRings(self.feature.geoms)

\* the count a pass of the fitting loop has fitted, or was fitting when it
\* raised
FittedCounts ==
    1..(IF cl.pc = "raised" /\ cl.i < cl.max_clusters THEN cl.i ELSE cl.i - 1)

\* C2: every cluster count that is fitted is below the number n of polygons,
\* so that for no n >= 1 and no maxClusters the fitting loop raises, neither
\* on a zero sum of squares nor on a count above n
C2_FittedBelowN ==
    (cl.pc # "idle" /\ ClusterInput /\ Len(self.feature.geoms) >= 1) =>
        /\ \A k \in FittedCounts : k < Len(self.feature.geoms)
        /\ ~(cl.pc = "raised" /\ cl.i < cl.max_clusters)

\* the 0-based index of the last strict decrease between consecutive scores
LastDecrease(AIC) ==
    CHOOSE j \in 0..(Len(AIC) - 2) :
        /\ AIC[j + 2] < AIC[j + 1]
        /\ \A m \in (j + 1)..(Len(AIC) - 2) : ~(AIC[m + 2] < AIC[m + 1])

\* C3: the cluster count chosen for the final partitioning is one plus the
\* index of the last strict decrease of the AIC scores, so it is at least 1
C3_ElbowIsOnePlusIndex ==
    cl.pc = "partition" =>
        /\ cl.n_clusters = 1 + LastDecrease(cl.AIC)
        /\ cl.n_clusters >= 1

\* the input polygons that the labels k assign to cluster c
Assigned(c) ==
    SelectSeq([i \in 1..Len(self.feature.geoms) |->
                  [poly |-> self.feature.geoms[i], label |-> cl.k[i]]],
              LAMBDA m : m.label = c)

\* C4: the set cluster() returns has exactly as many members as the chosen
\* cluster count, member c being the convex hull of the polygons assigned
\* to cluster c
C4_OneHullPerCluster ==
    (ClusterEnded /\ cl.k # <<>>) =>
        /\ cl.pc = "returned"
        /\ Len(cl.temp.feature) = cl.n_clusters
        /\ \A c \in 0..(cl.n_clusters - 1) :
              cl.temp.feature[c + 1] \in
                  HullRings([i \in 1..Len(Assigned(c)) |-> Assigned(c)[i].poly])

\* the extensions with a reader, and the reader of each
SupportedExts == {ext_shp, ext_zip, ext_kml, ext_kmz, ext_json, ext_geojson}
ReaderOf(e) ==
    IF e \in {ext_shp, ext_zip} THEN "from_shapefile"
    ELSE IF e \in {ext_kml, ext_kmz} THEN "from_kml"
    ELSE "from_geojson"

\* the run took the --polygon branch and has chosen (or refused) a reader
PolygonBranch == pc # "args" /\ ~args.BBOX.some /\ args.POLYGON.some

\* C5: for an argument <name><ext>[id1,id2,...] the reader of <ext> is called
\* on <name><ext> with variables = [id1,id2,...]; with no bracket suffix
\* variables is absent
C5_BracketSuffixSelectsVariables ==
    PolygonBranch =>
        \A st \in Stems, e \in SupportedExts, su \in Suffixes \ {<<"[", "]">>} :
            args.POLYGON.val = st \o e \o su =>
                /\ call.raised = None
                /\ call.reader = ReaderOf(e)
                /\ call.f = st \o e
                /\ call.variables =
                      IF su = <<>> THEN NoneV
                      ELSE Some(Split(SubSeq(su, 2, Len(su) - 1), ","))

ReadReturned == ret.op \in Readers /\ ret.status = "ok"

\* C7: when variables is provided, every member of the set read comes from a
\* feature whose id is in variables (none at all for an empty variables), and
\* variables = ['B'] on three one-ring features A, B, C gives one member
C7_OnlyListedFeatures ==
    (ReadReturned /\ call.variables.some) =>
        /\ \A i \in 1..Len(self.feature.geoms) :
              InSeq(self.feature.geoms[i].id, call.variables.val)
        /\ (call.variables.val = << <<"B">> >> /\ file = <<"tri", "sq", "tri">>)
              => Len(self.feature.geoms) = 1

\* the number of Polygon and LineString features of a file
PolygonCount(f) ==
    Cardinality({i \in 1..Len(f) :
                    Geometry(f[i]).type \in {"Polygon", "LineString"}})

\* C8: with no variables filter a reader returns exactly as many members as
\* the file has Polygon and LineString features, whatever their ring counts
C8_OneMemberPerFeature ==
    (ret.op \in Readers /\ call.variables = NoneV) =>
        /\ ret.status = "ok"
        /\ Len(self.feature.geoms) = PolygonCount(file)
        /\ self.shape = <<PolygonCount(file)>>

\* the set read has no member
EmptySet == self.feature.kind = "MultiPolygon" /\ self.feature.geoms = <<>>

\* C9: bounds() on a set of zero members raises and returns no value, and
\* the CLI builds no bounding_box or polygon fragment from such a set
C9_BoundsOfEmptySetRaises ==
    EmptySet =>
        /\ ret.op = "bounds" => ret.status = "raise"
        /\ flags = NoFlags

\* shoelace formula: twice the signed area of a closed vertex list
Shoelace2(ring) ==
    SumSeq([i \in 1..(Len(ring) - 1) |->
              (ring[i][1] - ring[i + 1][1]) * (ring[i][2] + ring[i + 1][2])])

\* C10: the exterior of the polygon convex_hull() leaves in self.feature has
\* non-negative shoelace area (counter-clockwise), whatever the winding of
\* the rings read and of the hull the library computed
C10_HullCounterClockwise ==
    (ret.op = "convex_hull" /\ ret.status = "ok") =>
        /\ self.feature.kind = "Polygon"
        /\ Shoelace2(self.feature.exterior) >= 0

C10_Witness ==
    /\ ret.op = "convex_hull"
    /\ ret.status = "ok"
    /\ file = <<"sq", "tri">>
    /\ Shoelace2(self.feature.exterior) > 0

\* the read got as far as opening the file: the name was resolved
Resolved == ret.op \in Readers /\ ret.exc \notin {"IOError", "FileNotFoundError"}

\* the entries of the directory asked about whose whole name is the
\* requested basename, letter case ignored
SameName(disk, filename) ==
    {i \in 1..Len(disk.listing) :
        /\ Dirname(filename) = disk.dir
        /\ Len(disk.listing[i]) = Len(Basename(filename))
        /\ \A j \in 1..Len(Basename(filename)) :
              Lower(disk.listing[i][j]) = Lower(Basename(filename)[j])}

\* C13: a path that exists is used as it is; otherwise the file resolved is
\* an entry of the directory whose whole name equals the requested basename
\* ignoring letter case; with no such entry the read fails as not found
C13_ResolvesByWholeName ==
    (ret.op \in Readers /\ fs.listing # <<>>) =>
        IF Exists(fs, call.f)
        THEN Resolved /\ self.filename = Some(call.f)
        ELSE IF SameName(fs, call.f) # {}
        THEN /\ Resolved
             /\ \E i \in SameName(fs, call.f) :
                   self.filename = Some(Join(Dirname(call.f), fs.listing[i]))
        ELSE ~Resolved /\ ret.status = "raise"

\* the members of the archive that end in .kml, in archive order
KmlMembers(namelist) == SelectSeq(namelist, LAMBDA m : EndsWith(m, ext_kml))

\* C17: reading a KMZ archive with one or more members ending in .kml
\* succeeds, and the member parsed is the first of them in archive order
C17_FirstKmlMemberParsed ==
    (ret.op = "from_kml" /\ call.flag /\ Resolved
        /\ KmlMembers(fs.namelist) # <<>>) =>
            /\ ret.status = "ok"
            /\ fs.kml_file = KmlMembers(fs.namelist)[1]

\* the set read is the two unit squares, no feature filtered away
TwoSquares == file = <<"unit0", "unit10">> /\ ~Truthy(call.variables)
HullReturned == ret.op = "convex_hull" /\ ret.status = "ok"

\* the vertices of a closed ring, the closing one left out
Corners(ring) == SubSeq(ring, 1, Len(ring) - 1)

\* C11 as stated: for the two unit squares (0,0)-(1,1) and (10,10)-(11,11)
\* convex_hull() leaves a 4-vertex rectangle, counter-clockwise from (0,0)
C11_HullIsRectangle ==
    (HullReturned /\ TwoSquares) =>
        /\ Len(Corners(self.feature.exterior)) = 4
        /\ self.feature.exterior[1] = <<0, 0>>
        /\ Shoelace2(self.feature.exterior) > 0

\* the hull of the two squares, counter-clockwise from (0,0)
TwoSquaresHull ==
    <<<<0, 0>>, <<1, 0>>, <<11, 10>>, <<11, 11>>, <<10, 11>>, <<0, 1>>>>

\* C11 (amended): for the two unit squares convex_hull() leaves the
\* 6-vertex hull (0,0), (1,0), (11,10), (11,11), (10,11), (0,1) in this
\* cyclic order (counter-clockwise), closed, from the vertex the hull
\* library starts its ring at
C11_HullIsHexagon ==
    (HullReturned /\ TwoSquares) =>
        /\ Len(Corners(self.feature.exterior)) = 6
        /\ \E k \in 0..5 :
              Corners(self.feature.exterior) = Rotate(TwoSquaresHull, k)
        /\ Last(self.feature.exterior) = self.feature.exterior[1]
        /\ Shoelace2(self.feature.exterior) > 0

C11_Witness ==
    /\ HullReturned
    /\ TwoSquares
    /\ Len(self.feature.exterior) = 7

\* C12: bounds() on a non-empty set returns (minX, minY, maxX, maxY) over
\* the vertices of all members: every vertex of every member lies in the
\* box and each side of the box passes through a vertex; for the two unit
\* squares it is (0, 0, 11, 11)
C12_BoundsOverAllMembers ==
    (ret.op = "bounds" /\ self.feature.kind = "MultiPolygon"
        /\ self.feature.geoms # <<>>) =>
        /\ ret.status = "ok"
        /\ Len(ret.value) = 4
        /\ \A i \in 1..Len(self.feature.geoms) :
              \A j \in 1..Len(self.feature.geoms[i].exterior) :
                 LET v == self.feature.geoms[i].exterior[j]
                 IN  /\ ret.value[1] <= v[1] /\ v[1] <= ret.value[3]
                     /\ ret.value[2] <= v[2] /\ v[2] <= ret.value[4]
        /\ \A side \in 1..4 :
              \E i \in 1..Len(self.feature.geoms) :
                 \E j \in 1..Len(self.feature.geoms[i].exterior) :
                    self.feature.geoms[i].exterior[j][((side - 1) % 2) + 1]
                        = ret.value[side]
        /\ TwoSquares => ret.value = <<0, 0, 11, 11>>

C12_Witness ==
    /\ ret.op = "bounds"
    /\ self.feature.kind = "MultiPolygon"
    /\ TwoSquares
    /\ ret.value = <<0, 0, 11, 11>>

\* C18: a call of bounds() that follows a call of bounds() returns what the
\* first returned and leaves the object (members, count) as it was
C18_BoundsIdempotent ==
    [][(ret.op = "bounds" /\ ret'.op = "bounds") =>
          (ret' = ret /\ self' = self)]_vars

C18_Witness ==
    /\ ret.op = "bounds"
    /\ ret.status = "ok"
    /\ self.feature.kind = "MultiPolygon"
    /\ Len(self.feature.geoms) >= 2
    /\ Len(ret.value) = 4

\* C16: no step of cluster(), up to its return or its exception, changes
\* the object it is called on (members, count, epsg); what it builds is the
\* frame's own temp
C16_ClusterLeavesSource ==
    [][cl'.pc # "idle" => self' = self]_vars

C16_Witness ==
    /\ cl.pc = "raised"
    /\ cl.temp.shape # <<>>
    /\ self.feature.kind = "MultiPolygon"
    /\ Len(self.feature.geoms) >= 2
    /\ self.shape = <<Len(self.feature.geoms)>>

\* the rings of the features a reader selected, in file order
SelectedRings(f, variables) ==
    LET sel == SelectFeatures(f, variables)
    IN  Flatten([i \in 1..Len(sel) |->
                    IF sel[i].geometry.type = "LineString"
                    THEN <<Close(sel[i].geometry.coordinates)>>
                    ELSE sel[i].geometry.coordinates])

\* C15: after a reader returns every member is valid, a ring that is valid
\* is a member as it is, and there is a member for each selected ring: none
\* is dropped
C15_MembersValidNoneDropped ==
    ReadReturned =>
        LET rings == SelectedRings(file, call.variables)
        IN  /\ \A i \in 1..Len(self.feature.geoms) :
                  is_valid(self.feature.geoms[i].exterior)
            /\ Len(self.feature.geoms) = Len(rings)
            /\ \A i \in 1..Len(rings) :
                  is_valid(rings[i]) => self.feature.geoms[i].exterior = rings[i]

\* the run ended by an exception of the polygon step of a call: raised
\* before the call's first search request
PolygonStepFailed ==
    /\ pc = "aborted"
    /\ batch.p >= 1
    /\ args.POLYGON.some
    /\ requests = <<>>

\* C14: when the polygon step of one product's processing fails, only that
\* product is aborted: the run still makes a call for every later product
\* of the batch
C14_LaterProductsProcessed ==
    PolygonStepFailed => batch.calls = batch.product

\* the urls the body of a page holds, in order (page n, of the given kind)
ExpectedUrls(kind, n) ==
    CASE kind = "few" -> <<<<n, 1>>, <<n, 2>>, <<n, 3>>>>
      [] kind = "full" -> [j \in 1..page_size |-> <<n, j>>]
      [] OTHER -> <<>>

\* C19: for G granules found, the download loop has issued, when the
\* function returns, one request for each page 1..ceil(G/100), in
\* increasing order (so one at least when G >= 1)
C19_OneRequestPerPage ==
    pc = "returned" =>
        LET G == Len(cmr.granules)
            pages == IF G % page_size = 0 THEN G \div page_size
                     ELSE (G \div page_size) + 1
        IN  /\ Len(cmr.orders) = pages
            /\ \A i \in 1..Len(cmr.orders) : cmr.orders[i].page_num = i
            /\ G >= 1 => Len(cmr.orders) >= 1

\* the search loop is over
SearchOver == pc \notin {"args", "cmr", "response"} /\ cmr.pages # <<>>

\* C20: the first search request carries no cmr-scroll-id header and every
\* later one the id of the first response; the loop ends at the first page
\* with no url of the wanted type, and granules is the urls of the pages
\* before it, in order
C20_ScrollProtocol ==
    /\ requests # <<>> => ~requests[1].scroll_id.some
    /\ \A i \in 2..Len(requests) :
          requests[i].scroll_id = Some(cmr.pages[1].scroll_id)
    /\ Len(requests) = Len(cmr.pages) + (IF pc = "response" THEN 1 ELSE 0)
    /\ \A i \in 1..Len(cmr.pages) :
          (ExpectedUrls(cmr.pages[i].kind, i) = <<>>)
              = (i = Len(cmr.pages) /\ SearchOver)
    /\ cmr.granules =
          Flatten([i \in 1..Len(cmr.pages) |-> ExpectedUrls(cmr.pages[i].kind, i)])

C20_Witness ==
    /\ SearchOver
    /\ Len(requests) = 3
    /\ cmr.pages[1].scroll_id # cmr.pages[2].scroll_id
    /\ Len(cmr.granules) = page_size + 3

\* the box around a set of points
BoxOf(P) ==
    <<SetMin({p[1] : p \in P}), SetMin({p[2] : p \in P}),
      SetMax({p[1] : p \in P}), SetMax({p[2] : p \in P})>>

\* the vertices of the set the last reader call ingested
Ingested ==
    LET g == Read(call.reader, file, call.variables).feature.geoms
    IN  UNION {{g[i].exterior[j] : j \in 1..Len(g[i].exterior)} : i \in 1..Len(g)}

RingPoints(ring) == {ring[j] : j \in 1..Len(ring)}

\* C21: convex_hull() puts the one hull polygon in the place of the members;
\* after it xy() returns the hull's exterior and bounds() the box of the set
\* that was read, while xy() on the set of members raises; the CLI calls
\* bounds(), convex_hull(), xy() in this order, and its bounding_box and
\* polygon fragments are the box and the hull of the one ingested set
C21_HullInPlace ==
    /\ HullReturned => (self.feature.kind = "Polygon" /\ self.shape = <<>>)
    /\ (ret.op = "xy" /\ self.feature.kind = "Polygon") =>
          (ret.status = "ok" /\ ret.value = self.feature.exterior)
    /\ (ret.op = "xy" /\ self.feature.kind = "MultiPolygon") =>
          ret.status = "raise"
    /\ (ret.op = "bounds" /\ self.feature.kind = "Polygon") =>
          (ret.status = "ok" /\ ret.value = BoxOf(Ingested))
    /\ pc = "hull" => (ret.op = "bounds" /\ self.feature.kind = "MultiPolygon")
    /\ pc = "xy" => (ret.op = "convex_hull" /\ flags.bounds_flag.some)
    /\ flags.spatial_flag.kind = "polygon" =>
          /\ ret.op = "xy"
          /\ flags.bounds_flag = Some(BoxOf(Ingested))
          /\ flags.spatial_flag.val = self.feature.exterior
          /\ BoxOf(RingPoints(flags.spatial_flag.val)) = flags.bounds_flag.val
          /\ \A v \in Ingested :
                \A j \in 1..(Len(flags.spatial_flag.val) - 1) :
                   Cross(flags.spatial_flag.val[j],
                         flags.spatial_flag.val[j + 1], v) >= 0

C21_Witness ==
    /\ pc = "api"
    /\ ret.op = "bounds"
    /\ self.feature.kind = "Polygon"
    /\ Len(file) >= 2
    /\ ret.value = BoxOf(Ingested)

\* a digit string without its leading zeros, "0" for zeros only
RECURSIVE StripZeros(_)
StripZeros(s) ==
    IF Len(s) > 1 /\ s[1] = "0" THEN StripZeros(Tail(s)) ELSE s

\* the parameters of widths pad, pad - 1, ..., d for a version of d digits
StatedParams(version, pad) ==
    LET digits == StripZeros(version)
        d == Len(digits)
    IN  Flatten([i \in 1..(pad - d + 1) |->
                    <<"&version=">>
                    \o [j \in 1..(pad - i + 1 - d) |-> "0"] \o digits])

QueryEnded ==
    /\ vq.cli.pc \in {"returned", "raised"}
    /\ vq.utilities.pc \in {"returned", "raised"}

QueryAsStated ==
    /\ vq.cli.pc = vq.utilities.pc
    /\ vq.cli.query_params = vq.utilities.query_params
    /\ vq.cli.exc = vq.utilities.exc
    /\ IF Len(vq.version) > vq.pad
       THEN vq.cli.pc = "raised"
       ELSE /\ vq.cli.pc = "returned"
            /\ vq.cli.query_params = StatedParams(vq.version, vq.pad)

\* C22: build_version_query ends on every version string of digits: it
\* raises when the string is longer than the pad length, and otherwise
\* returns pad - d + 1 "&version=" parameters, zero-padded to the widths pad,
\* pad - 1, ..., d in that order, d being the digit count of int(version);
\* the copy in utilities.py ends the same way with the same string
C22_VersionQueryEnds == <>[](QueryEnded /\ QueryAsStated)

C22_Witness ==
    /\ QueryEnded
    /\ vq.version = <<"0", "1", "9">>
    /\ vq.pad = 4
    /\ vq.cli.pc = "returned"
    /\ vq.cli.query_params =
          <<"&version=", "0", "0", "1", "9", "&version=", "0", "1", "9",
            "&version=", "1", "9">>

====
